---- MODULE Spec2Model ----
(***************************************************************************)
(* Model of cement_optimizer.py: a Streamlit script that reads material    *)
(* prices and proportion bounds from widgets, solves                       *)
(*     minimise  sum(prices[i] * x[i])                                     *)
(*     subject to sum(x) = 1,  min_ratios[i] <= x[i] <= max_ratios[i]      *)
(* with scipy's linprog and displays a comparison with the July blend.     *)
(*                                                                         *)
(* Units.  Prices are integers in cents (0.01 yuan).  Widget percentages   *)
(* are integers in tenths of a percent; proportions (the script's          *)
(* fractions) are integers in units of 1/Scale.  A cost is therefore an    *)
(* integer in units of 1/Scale cent.  Arithmetic is exact: the 1e-7        *)
(* feasibility tolerance of the LP solver is not represented, and of the   *)
(* floating point error only its one visible effect is: the direction in   *)
(* which a displayed half cent is rounded.                                 *)
(***************************************************************************)
EXTENDS Integers, Sequences, FiniteSets, TLC

VARIABLES
    materials,        \* the list `materials` (material identifiers)
    ratios_july,      \* the list `ratios_july`, tenths of a percent
    w_price,          \* widget state price_i, cents
    w_min,            \* widget state min_i, tenths of a percent
    w_max,            \* widget state max_i, tenths of a percent
    strength_target,  \* slider, tenths of a unit
    fineness_target,  \* slider, tenths of a percent
    prices,           \* script variable `prices`
    min_ratios,       \* script variable `min_ratios` (fractions)
    max_ratios,       \* script variable `max_ratios` (fractions)
    status,           \* "input" | "ok" | "failed" | "ValueError"
    optimal_ratios,   \* script variable: a vector, or None
    min_cost,         \* script variable: Some(cost), or None
    current_cost,     \* Some(cost), or None when line 108 was not run
    current_cost_breakdown,
    optimal_cost_breakdown,
    shown,            \* what the run put on the page below the header
    edits,            \* number of widget changes so far (bounded)
    memo              \* an earlier request and its outcome, kept for comparison

vars == <<materials, ratios_july, w_price, w_min, w_max, strength_target,
          fineness_target, prices, min_ratios, max_ratios, status,
          optimal_ratios, min_cost, current_cost, current_cost_breakdown,
          optimal_cost_breakdown, shown, edits, memo>>

\* Python's None is the empty sequence; a number v that may be None is <<v>>.
None == <<>>
Some(v) == <<v>>
Val(o) == o[1]

(***************************************************************************)
(* Bounds of the model.                                                    *)
(***************************************************************************)
MaxEdits == 2
MaxN == 3

(***************************************************************************)
(* Program constants.                                                      *)
(***************************************************************************)
Percent == 100
\* one proportion unit is a tenth of a percent
Scale == Percent * 10
\* the default bounds are the July ratio -5 / +5 percentage points
Margin == 5 * 10

Materials7 == <<1, 2, 3, 4, 5, 6, 7>>
prices_july == <<22560, 1907, 3931, 3446, 1451, 9, 10806>>
RatiosJuly == <<441, 227, 118, 0, 73, 50, 91>>

StrengthDefault == 150
FinenessDefault == 200

(***************************************************************************)
(* Helpers on sequences of integers.                                       *)
(***************************************************************************)
Max2(a, b) == IF a >= b THEN a ELSE b
Min2(a, b) == IF a <= b THEN a ELSE b

RECURSIVE SumSeq(_)
SumSeq(s) == IF s = <<>> THEN 0 ELSE Head(s) + SumSeq(Tail(s))

RECURSIVE SumOver(_, _)
SumOver(f, S) ==
    IF S = {} THEN 0
    ELSE LET i == CHOOSE j \in S : TRUE IN f[i] + SumOver(f, S \ {i})

\* element-wise product of two sequences of the same length
Times(a, b) == [i \in 1..Len(a) |-> a[i] * b[i]]

(***************************************************************************)
(* np.dot(ratios, prices) (calculate_cost, line 98).  numpy raises         *)
(* ValueError when two 1-D operands differ in length.                      *)
(***************************************************************************)
\* as if operands of different length were multiplied pairwise up to the shorter
DotAligned_m(a, b) == Len(a) <= Len(b)

DotAligned(a, b) == Len(a) = Len(b)

RECURSIVE Dot(_, _)
Dot(a, b) ==
    IF a = <<>> \/ b = <<>> THEN 0
    ELSE Head(a) * Head(b) + Dot(Tail(a), Tail(b))

\* as if the cost were computed from the wrong operand
calculate_cost_m(ratios, pr) == Dot(pr, pr)

calculate_cost(ratios, pr) == Dot(ratios, pr)

(***************************************************************************)
(* linprog(c, A_eq = ones(1, n), b_eq = [1], bounds, method = 'highs').    *)
(* The library is modelled by what it computes for this problem shape (one *)
(* equality row, box bounds): every variable starts at its lower bound,    *)
(* the amount still missing from the equality row is handed out to the     *)
(* variables in order of increasing cost, each up to its upper bound.      *)
(* The order among variables of equal cost is the solver's choice, so the  *)
(* result is a set of possible outcomes.  fun is accumulated as the        *)
(* objective of the vertex that is built.                                  *)
(***************************************************************************)
\* as if the objective were maximised
CheapestOf_m(c, S) == {i \in S : \A j \in S : c[i] >= c[j]}

CheapestOf(c, S) == {i \in S : \A j \in S : c[i] <= c[j]}

\* as if a variable were raised to its upper bound whatever is still missing
RECURSIVE Fill_sum(_, _, _, _, _, _)
Fill_sum(c, hi, x, fun, rem, todo) ==
    IF rem = 0 \/ todo = {} THEN {[x |-> x, fun |-> fun, rem |-> rem]}
    ELSE UNION {
           LET add == hi[i] - x[i]
           IN  Fill_sum(c, hi, [x EXCEPT ![i] = x[i] + add], fun + c[i] * add,
                        rem - Min2(rem, add), todo \ {i})
           : i \in {j \in todo : \A k \in todo : c[j] <= c[k]} }

\* as if the upper bounds were ignored
RECURSIVE Fill_box(_, _, _, _, _, _)
Fill_box(c, hi, x, fun, rem, todo) ==
    IF rem = 0 \/ todo = {} THEN {[x |-> x, fun |-> fun, rem |-> rem]}
    ELSE UNION {
           LET add == rem
           IN  Fill_box(c, hi, [x EXCEPT ![i] = x[i] + add], fun + c[i] * add,
                        rem - add, todo \ {i})
           : i \in {j \in todo : \A k \in todo : c[j] <= c[k]} }

\* Outcomes of handing out `rem` over the variables in `todo`, from vertex x.
RECURSIVE Fill(_, _, _, _, _, _)
Fill(c, hi, x, fun, rem, todo) ==
    IF rem = 0 \/ todo = {} THEN {[x |-> x, fun |-> fun, rem |-> rem]}
    ELSE UNION {
           LET add == Min2(rem, hi[i] - x[i])
           IN  Fill(c, hi, [x EXCEPT ![i] = x[i] + add], fun + c[i] * add,
                    rem - add, todo \ {i})
           : i \in CheapestOf(c, todo) }

\* list(zip(min_ratios, max_ratios)) (line 86): pairs up to the shorter list
Zip(a, b) == [i \in 1..Min2(Len(a), Len(b)) |-> <<a[i], b[i]>>]

\* The shapes linprog's input validation rejects with a ValueError: c must
\* have one entry per column of A_eq; bounds must be empty, one pair, or one
\* pair per entry of c.
LinprogShapeError(c, ncols, bounds) ==
    \/ Len(c) # ncols
    \/ Len(bounds) \notin {0, 1, Len(c)}

\* The bounds linprog solves with: empty bounds mean (0, inf) for every
\* variable, a single pair applies to every variable.  With lower bounds 0
\* the equality row keeps every variable <= 1, so inf is written Scale.
CleanBounds(n, bounds) ==
    IF Len(bounds) = 0 THEN [i \in 1..n |-> <<0, Scale>>]
    ELSE IF Len(bounds) = 1 THEN [i \in 1..n |-> bounds[1]]
    ELSE bounds

\* as if a blend that cannot reach the equality row were still reported solved
linprog_m(c, lo, hi) ==
    LET N == 1..Len(c)
        base == SumSeq(lo)
    IN  IF \E i \in N : lo[i] > hi[i]
          THEN {[success |-> FALSE, x |-> None, fun |-> None]}
        ELSE IF base > Scale
          THEN {[success |-> FALSE, x |-> None, fun |-> None]}
        ELSE { [success |-> TRUE, x |-> r.x, fun |-> r.fun]
               : r \in Fill(c, hi, lo, Dot(c, lo), Scale - base, N) }

LinprogFailure == [success |-> FALSE, x |-> None, fun |-> None]

linprog(c, lo, hi) ==
    LET N == 1..Len(c)
        base == SumSeq(lo)
    IN  IF \E i \in N : lo[i] > hi[i] THEN {LinprogFailure}
        ELSE IF base > Scale THEN {LinprogFailure}
        ELSE { IF r.rem = 0
                 THEN [success |-> TRUE, x |-> r.x, fun |-> r.fun]
                 ELSE LinprogFailure
               : r \in Fill(c, hi, lo, Dot(c, lo), Scale - base, N) }

\* as if a failed solve returned a zero-filled vector and a zero cost
optimize_cost_m(pr, mins, maxs, mats) ==
    LET bounds == Zip(mins, maxs)
        clean  == CleanBounds(Len(pr), bounds)
        lo     == [i \in 1..Len(clean) |-> clean[i][1]]
        hi     == [i \in 1..Len(clean) |-> clean[i][2]]
    IN  IF LinprogShapeError(pr, Len(mats), bounds)
        THEN {[raised |-> TRUE, x |-> None, fun |-> None]}
        ELSE { IF res.success
                 THEN [raised |-> FALSE, x |-> res.x, fun |-> Some(res.fun)]
                 ELSE [raised |-> FALSE, x |-> [i \in 1..Len(pr) |-> 0],
                       fun |-> Some(0)]
               : res \in linprog(pr, lo, hi) }

(***************************************************************************)
(* optimize_cost (lines 77-94): (res.x, res.fun) on success, (None, None)  *)
(* otherwise; a ValueError of linprog propagates.                          *)
(***************************************************************************)
optimize_cost(pr, mins, maxs, mats) ==
    LET bounds == Zip(mins, maxs)
        clean  == CleanBounds(Len(pr), bounds)
        lo     == [i \in 1..Len(clean) |-> clean[i][1]]
        hi     == [i \in 1..Len(clean) |-> clean[i][2]]
    IN  IF LinprogShapeError(pr, Len(mats), bounds)
        THEN {[raised |-> TRUE, x |-> None, fun |-> None]}
        ELSE { IF res.success
                 THEN [raised |-> FALSE, x |-> res.x, fun |-> Some(res.fun)]
                 ELSE [raised |-> FALSE, x |-> None, fun |-> None]
               : res \in linprog(pr, lo, hi) }

(***************************************************************************)
(* Display (lines 104-159).  f"{v:.2f}" and ndarray.round(2) round the     *)
(* binary double that holds a cost.  A cost that is not a half cent is     *)
(* rounded to the nearest cent; an exact half cent goes up or down         *)
(* according to the side on which its double lies (0.025 -> 0.03,          *)
(* 0.015 -> 0.01), so both neighbours are possible results.                *)
(***************************************************************************)
Round2(v) ==
    LET q == v \div Scale
        r == v % Scale
    IN  IF 2 * r > Scale THEN {q + 1}
        ELSE IF 2 * r < Scale THEN {q}
        ELSE {q, q + 1}

\* ndarray.round(2) on a vector: every entry rounded on its own
RECURSIVE RoundAll(_)
RoundAll(s) ==
    IF s = <<>> THEN {<<>>}
    ELSE {<<h>> \o t : h \in Round2(Head(s)), t \in RoundAll(Tail(s))}

\* ax.pie(x) divides by sum(x): wedges of a zero total have NaN angles and
\* matplotlib raises ValueError
PieFails(x) == SumSeq(x) = 0

\* as if the July percentages were scaled by the wrong factor
ReferenceBlend_m(rj) == [i \in 1..Len(rj) |-> rj[i] \div 10]

\* np.array(ratios_july) / 100
ReferenceBlend(rj) == [i \in 1..Len(rj) |-> (rj[i] * Scale) \div (Percent * 10)]
\* optimal_ratios * 100, in tenths of a percent
AsPercent(x) == [i \in 1..Len(x) |-> (x[i] * Percent * 10) \div Scale]

NothingShown ==
    [error |-> FALSE, metrics |-> None, bar_chart |-> None, pies |-> None,
     table |-> None]

\* lines 110-159: the metrics and the bar chart, then the pies, then the
\* table; an exception of ax.pie ends the run after the bar chart
ShowResults(mats, rj, pr, x, fun, cur, cb, ob) ==
    IF PieFails(cb) \/ PieFails(ob)
    THEN { [error     |-> FALSE,
            metrics   |-> <<a, b, c>>,
            bar_chart |-> <<rj, AsPercent(x)>>,
            pies      |-> None,
            table     |-> None]
           : a \in Round2(cur), b \in Round2(fun), c \in Round2(cur - fun) }
    ELSE { [error     |-> FALSE,
            metrics   |-> <<a, b, c>>,
            bar_chart |-> <<rj, AsPercent(x)>>,
            pies      |-> <<cb, ob>>,
            table     |-> <<mats, rj, AsPercent(x), pr, rcb, rob>>]
           : a \in Round2(cur), b \in Round2(fun), c \in Round2(cur - fun),
             rcb \in RoundAll(cb), rob \in RoundAll(ob) }

(***************************************************************************)
(* One run of the script body from line 100 on, for given materials,       *)
(* July ratios and input lists: the set of outcomes it can have.           *)
(***************************************************************************)
Outcome(st, x, fun, cur, cb, ob, sh) ==
    [status |-> st, optimal_ratios |-> x, min_cost |-> fun,
     current_cost |-> cur, current_cost_breakdown |-> cb,
     optimal_cost_breakdown |-> ob, shown |-> sh]

\* lines 107-159, run when the solve returned the blend x of cost fun
Display(mats, rj, pr, x, fun) ==
    IF ~DotAligned(ReferenceBlend(rj), pr)
    THEN {Outcome("ValueError", x, Some(fun), None, None, None, NothingShown)}
    ELSE LET ref == ReferenceBlend(rj)
             cur == calculate_cost(ref, pr)
             cb  == Times(ref, pr)
             ob  == Times(x, pr)
         IN  { Outcome(IF PieFails(cb) \/ PieFails(ob) THEN "ValueError" ELSE "ok",
                       x, Some(fun), Some(cur), cb, ob, sh)
               : sh \in ShowResults(mats, rj, pr, x, fun, cur, cb, ob) }

Script(mats, rj, pr, mins, maxs) ==
    UNION { IF o.raised
              THEN {Outcome("ValueError", None, None, None, None, None,
                            NothingShown)}
            ELSE IF o.x = None
              THEN {Outcome("failed", None, None, None, None, None,
                            [NothingShown EXCEPT !.error = TRUE])}
            ELSE Display(mats, rj, pr, o.x, Val(o.fun))
            : o \in optimize_cost(pr, mins, maxs, mats) }

SetOutcome(o) ==
    /\ status' = o.status
    /\ optimal_ratios' = o.optimal_ratios
    /\ min_cost' = o.min_cost
    /\ current_cost' = o.current_cost
    /\ current_cost_breakdown' = o.current_cost_breakdown
    /\ optimal_cost_breakdown' = o.optimal_cost_breakdown
    /\ shown' = o.shown

(***************************************************************************)
(* The application: lines 28-74 read the widgets, line 101 on computes.    *)
(***************************************************************************)
\* min_r / 100: a widget percentage as a fraction
ToFraction(w) == (w * Scale) \div (Percent * 10)

DefaultMin == [i \in 1..Len(RatiosJuly) |-> Max2(0, RatiosJuly[i] - Margin)]
DefaultMax == [i \in 1..Len(RatiosJuly) |-> Min2(Percent * 10, RatiosJuly[i] + Margin)]

\* values a user is taken to enter (number_input keeps them in range); a
\* widget can also be put back to its default
PriceChoices(i) == {0, 2000, prices_july[i]}
MinChoices(i) == {0, 500, 1000, DefaultMin[i]}
MaxChoices(i) == {0, 500, 1000, DefaultMax[i]}
StrengthChoices == {StrengthDefault, 145}
FinenessChoices == {FinenessDefault, 210}

\* as if the previous optimum were kept whenever it still fits the bounds
Rerun_m(wp, wmin, wmax) ==
    /\ prices' = wp
    /\ min_ratios' = [i \in 1..Len(wmin) |-> ToFraction(wmin[i])]
    /\ max_ratios' = [i \in 1..Len(wmax) |-> ToFraction(wmax[i])]
    /\ IF /\ status = "ok"
          /\ \A i \in 1..Len(wp) : /\ min_ratios'[i] <= optimal_ratios[i]
                                   /\ optimal_ratios[i] <= max_ratios'[i]
       THEN \E o \in Display(materials, ratios_july, wp, optimal_ratios,
                             Dot(optimal_ratios, wp)) : SetOutcome(o)
       ELSE \E o \in Script(materials, ratios_july, prices', min_ratios',
                            max_ratios') : SetOutcome(o)

\* A rerun of the whole script with the widget values wp, wmin, wmax.
Rerun(wp, wmin, wmax) ==
    /\ prices' = wp
    /\ min_ratios' = [i \in 1..Len(wmin) |-> ToFraction(wmin[i])]
    /\ max_ratios' = [i \in 1..Len(wmax) |-> ToFraction(wmax[i])]
    /\ \E o \in Script(materials, ratios_july, prices', min_ratios', max_ratios') :
           SetOutcome(o)

Snapshot ==
    [prices |-> prices, min_ratios |-> min_ratios, max_ratios |-> max_ratios,
     strength |-> strength_target, fineness |-> fineness_target,
     status |-> status, min_cost |-> min_cost]

\* bookkeeping shared by the widget actions
Edited ==
    /\ edits < MaxEdits
    /\ edits' = edits + 1
    /\ memo' \in {memo, {Snapshot}}
    /\ UNCHANGED <<materials, ratios_july>>

Init ==
    /\ materials = Materials7
    /\ ratios_july = RatiosJuly
    /\ w_price = prices_july
    /\ w_min = DefaultMin
    /\ w_max = DefaultMax
    /\ strength_target = StrengthDefault
    /\ fineness_target = FinenessDefault
    /\ prices = w_price
    /\ min_ratios = [i \in 1..Len(w_min) |-> ToFraction(w_min[i])]
    /\ max_ratios = [i \in 1..Len(w_max) |-> ToFraction(w_max[i])]
    /\ edits = 0
    /\ memo = {}
    /\ \E o \in Script(materials, ratios_july, prices, min_ratios, max_ratios) :
           /\ status = o.status
           /\ optimal_ratios = o.optimal_ratios
           /\ min_cost = o.min_cost
           /\ current_cost = o.current_cost
           /\ current_cost_breakdown = o.current_cost_breakdown
           /\ optimal_cost_breakdown = o.optimal_cost_breakdown
           /\ shown = o.shown

SetPrice ==
    \E i \in 1..Len(w_price) : \E v \in PriceChoices(i) :
        /\ v # w_price[i]
        /\ Edited
        /\ w_price' = [w_price EXCEPT ![i] = v]
        /\ UNCHANGED <<w_min, w_max, strength_target, fineness_target>>
        /\ Rerun(w_price', w_min', w_max')

SetMin ==
    \E i \in 1..Len(w_min) : \E v \in MinChoices(i) :
        /\ v # w_min[i]
        /\ Edited
        /\ w_min' = [w_min EXCEPT ![i] = v]
        /\ UNCHANGED <<w_price, w_max, strength_target, fineness_target>>
        /\ Rerun(w_price', w_min', w_max')

SetMax ==
    \E i \in 1..Len(w_max) : \E v \in MaxChoices(i) :
        /\ v # w_max[i]
        /\ Edited
        /\ w_max' = [w_max EXCEPT ![i] = v]
        /\ UNCHANGED <<w_price, w_min, strength_target, fineness_target>>
        /\ Rerun(w_price', w_min', w_max')

SetStrength ==
    \E v \in StrengthChoices :
        /\ v # strength_target
        /\ Edited
        /\ strength_target' = v
        /\ UNCHANGED <<w_price, w_min, w_max, fineness_target>>
        /\ Rerun(w_price', w_min', w_max')

SetFineness ==
    \E v \in FinenessChoices :
        /\ v # fineness_target
        /\ Edited
        /\ fineness_target' = v
        /\ UNCHANGED <<w_price, w_min, w_max, strength_target>>
        /\ Rerun(w_price', w_min', w_max')

Next == SetPrice \/ SetMin \/ SetMax \/ SetStrength \/ SetFineness

Spec == Init /\ [][Next]_vars

(***************************************************************************)
(* optimize_cost as a function: inputs drawn from bounded sets, one call.  *)
(* The inputs are well formed: costs >= 0, 0 <= min[i] <= max[i] <= 1.     *)
(***************************************************************************)
SolveCosts == {0, 200, 1000}
Fractions == {0, 200, 600, 1000}
RefFractions == {0, 500, 1000}

Idle ==
    /\ w_price = <<>> /\ w_min = <<>> /\ w_max = <<>>
    /\ strength_target = StrengthDefault
    /\ fineness_target = FinenessDefault
    /\ status = "input"
    /\ optimal_ratios = None
    /\ min_cost = None
    /\ current_cost = None
    /\ current_cost_breakdown = None
    /\ optimal_cost_breakdown = None
    /\ shown = NothingShown
    /\ edits = 0
    /\ memo = {}

InitSolve ==
    /\ \E n \in 1..MaxN :
        /\ materials = [i \in 1..n |-> i]
        /\ prices \in [1..n -> SolveCosts]
        /\ min_ratios \in [1..n -> Fractions]
        /\ max_ratios \in [1..n -> Fractions]
        /\ \A i \in 1..n : min_ratios[i] <= max_ratios[i]
    /\ ratios_july = <<>>
    /\ Idle

CallOptimize ==
    /\ status = "input"
    /\ \E o \in optimize_cost(prices, min_ratios, max_ratios, materials) :
        /\ status' = IF o.raised THEN "ValueError"
                     ELSE IF o.x = None THEN "failed" ELSE "ok"
        /\ optimal_ratios' = o.x
        /\ min_cost' = o.fun
    /\ UNCHANGED <<materials, ratios_july, w_price, w_min, w_max,
                   strength_target, fineness_target, prices, min_ratios,
                   max_ratios, current_cost, current_cost_breakdown,
                   optimal_cost_breakdown, shown, edits, memo>>

NextSolve == CallOptimize

SpecSolve == InitSolve /\ [][NextSolve]_vars

(***************************************************************************)
(* The comparison (lines 100-159) as a function of the material list, the  *)
(* reference ratios, the prices and the bound lists, whose lengths may     *)
(* all differ; the lower bounds are 0 and the upper bounds are one common  *)
(* value.                                                                  *)
(***************************************************************************)
UpperChoices == {600, Scale}

InitCompare ==
    /\ \E n \in 1..MaxN, p \in 1..MaxN, m \in 1..MaxN :
        /\ materials = [i \in 1..n |-> i]
        /\ prices \in [1..p -> SolveCosts]
        /\ ratios_july \in [1..m -> RefFractions]
    /\ \E lmin \in 0..MaxN, lmax \in 0..MaxN, u \in UpperChoices :
        /\ min_ratios = [i \in 1..lmin |-> 0]
        /\ max_ratios = [i \in 1..lmax |-> u]
    /\ Idle

RunScript ==
    /\ status = "input"
    /\ \E o \in Script(materials, ratios_july, prices, min_ratios, max_ratios) :
           SetOutcome(o)
    /\ UNCHANGED <<materials, ratios_july, w_price, w_min, w_max,
                   strength_target, fineness_target, prices, min_ratios,
                   max_ratios, edits, memo>>

NextCompare == RunScript

SpecCompare == InitCompare /\ [][NextCompare]_vars

(***************************************************************************)
(* Properties.                                                             *)
(***************************************************************************)
Indices == 1..Len(prices)

\* the cost of blend x at the current prices, summed material by material
CostOf(x) == SumOver([i \in Indices |-> prices[i] * x[i]], Indices)

WellFormed ==
    /\ Len(prices) = Len(materials)
    /\ Len(min_ratios) = Len(prices)
    /\ Len(max_ratios) = Len(prices)
    /\ \A i \in Indices :
        /\ prices[i] >= 0
        /\ 0 <= min_ratios[i]
        /\ min_ratios[i] <= max_ratios[i]
        /\ max_ratios[i] <= Scale

SumMin == SumOver(min_ratios, DOMAIN min_ratios)
SumMax == SumOver(max_ratios, DOMAIN max_ratios)

\* every proportion vector on a grid of fifths that is a complete blend
\* within the box bounds
Grid == {0, 200, 400, 600, 800, 1000}
RECURSIVE GridBlends(_, _)
\* the vectors for materials 1..k, within their bounds, that sum to total
GridBlends(k, total) ==
    IF k = 0 THEN (IF total = 0 THEN {<<>>} ELSE {})
    ELSE UNION { {Append(b, g) : b \in GridBlends(k - 1, total - g)}
                 : g \in {h \in Grid : /\ min_ratios[k] <= h
                                       /\ h <= max_ratios[k]
                                       /\ h <= total} }
FeasibleGrid == GridBlends(Len(prices), Scale)

\* C1: for well-formed inputs optimize_cost succeeds (a vector and a cost)
\* exactly when sum(min) <= 1 <= sum(max); otherwise it returns (None, None).
C1_FeasibilityBound ==
    (status # "input" /\ WellFormed) =>
        IF SumMin <= Scale /\ Scale <= SumMax
        THEN status = "ok" /\ optimal_ratios # None /\ min_cost # None
        ELSE status = "failed" /\ optimal_ratios = None /\ min_cost = None

\* C1 witness: the call has returned Infeasible for min = [0.6, 0.6], max = [1, 1].
C1_Witness ==
    /\ status = "failed"
    /\ min_ratios = <<600, 600>>
    /\ max_ratios = <<1000, 1000>>

\* C2: on success the returned cost is the minimum over the feasible region:
\* some feasible vector attains it and no feasible vector is cheaper.
C2_Optimality ==
    status = "ok" =>
        /\ \A x \in FeasibleGrid : CostOf(x) >= Val(min_cost)
        /\ \E x \in FeasibleGrid : CostOf(x) = Val(min_cost)

\* C2 witness: a successful solve with three materials in which feasible
\* blends of different cost exist and the bounds force a mixed blend.
C2_Witness ==
    /\ status = "ok"
    /\ Len(prices) = 3
    /\ \E x \in FeasibleGrid : CostOf(x) > Val(min_cost)
    /\ \A i \in Indices : optimal_ratios[i] < Scale

\* C3: on success the returned proportions sum to exactly 1.
C3_SumInvariant ==
    status = "ok" => SumOver(optimal_ratios, DOMAIN optimal_ratios) = Scale

\* C3 witness: a successful solve whose vector lies strictly between its
\* bounds for some material (the remainder was split).
C3_Witness ==
    /\ status = "ok"
    /\ \E i \in Indices :
        min_ratios[i] < optimal_ratios[i] /\ optimal_ratios[i] < max_ratios[i]

\* C4: on success every component respects its box bound; a material with
\* min = max = v gets exactly v.
C4_BoundRespect ==
    status = "ok" =>
        /\ DOMAIN optimal_ratios = Indices
        /\ \A i \in Indices :
            /\ min_ratios[i] <= optimal_ratios[i]
            /\ optimal_ratios[i] <= max_ratios[i]
            /\ (min_ratios[i] = max_ratios[i] => optimal_ratios[i] = min_ratios[i])

\* C4 witness: a successful solve with a pinned cheapest material, and another
\* material held at its upper bound.
C4_Witness ==
    /\ status = "ok"
    /\ \E i \in Indices :
        /\ min_ratios[i] = max_ratios[i]
        /\ min_ratios[i] > 0
        /\ min_ratios[i] < Scale
        /\ \A j \in Indices : prices[i] <= prices[j]
    /\ \E i \in Indices :
        /\ min_ratios[i] < max_ratios[i]
        /\ optimal_ratios[i] = max_ratios[i]
        /\ max_ratios[i] < Scale

InfeasibleInput == SumMin > Scale \/ SumMax < Scale

\* C5: on an infeasible input optimize_cost returns (None, None) and the page
\* shows the failure message only: no reference cost, savings, breakdown,
\* chart or table.
C5_NoPartialResult ==
    InfeasibleInput =>
        /\ status = "failed"
        /\ optimal_ratios = None
        /\ min_cost = None
        /\ current_cost = None
        /\ current_cost_breakdown = None
        /\ optimal_cost_breakdown = None
        /\ shown = [NothingShown EXCEPT !.error = TRUE]

\* C5 witness: a well-formed infeasible request made after a feasible one.
C5_Witness ==
    /\ InfeasibleInput
    /\ WellFormed
    /\ edits > 0
    /\ status = "failed"

Malformed ==
    \/ Len(prices) # Len(materials)
    \/ Len(min_ratios) # Len(prices)
    \/ Len(max_ratios) # Len(prices)
    \/ \E i \in Indices :
        \/ prices[i] < 0
        \/ min_ratios[i] > max_ratios[i]
        \/ min_ratios[i] < 0
        \/ max_ratios[i] > Scale

\* C6: malformed inputs are reported as a configuration error, an outcome
\* distinct from Infeasible ("failed") and from success ("ok").
C6_ConfigurationError ==
    Malformed => status \notin {"ok", "failed"}

\* d is v (a cost in units of 1/Scale cent) shown in cents: the nearest cent,
\* either neighbour for an exact half cent
IsCents(d, v) == 2 * Scale * d >= 2 * v - Scale /\ 2 * Scale * d <= 2 * v + Scale

\* C7: on success referenceCost = sum(reference[i] * cost[i]), optimalCost =
\* sum(optimal[i] * cost[i]), savings = referenceCost - optimalCost, and each
\* breakdown is proportion[i] * cost[i] and sums to its blend's cost; costs
\* [10, 2] with reference [0.5, 0.5] and free bounds give x* = [0, 1],
\* optimalCost 2, referenceCost 6, savings 4.
C7_ComparatorCorrectness ==
    (optimal_ratios # None /\ current_cost # None) =>
        LET ref == [i \in Indices |-> ToFraction(ratios_july[i])]
        IN  /\ Val(current_cost) = CostOf(ref)
            /\ Val(min_cost) = CostOf(optimal_ratios)
            /\ \A i \in Indices :
                /\ current_cost_breakdown[i] = ref[i] * prices[i]
                /\ optimal_cost_breakdown[i] = optimal_ratios[i] * prices[i]
            /\ SumOver(current_cost_breakdown, Indices) = Val(current_cost)
            /\ SumOver(optimal_cost_breakdown, Indices) = Val(min_cost)
            /\ IsCents(shown.metrics[1], CostOf(ref))
            /\ IsCents(shown.metrics[2], CostOf(optimal_ratios))
            /\ IsCents(shown.metrics[3], CostOf(ref) - CostOf(optimal_ratios))
            /\ (/\ prices = <<1000, 200>>
                /\ ratios_july = <<500, 500>>
                /\ Len(max_ratios) = 2
                /\ max_ratios[1] = Scale
                => /\ optimal_ratios = <<0, 1000>>
                   /\ shown.metrics = <<600, 200, 400>>)

\* C7 witness: the end-to-end example has been computed.
C7_Witness ==
    /\ status = "ok"
    /\ prices = <<1000, 200>>
    /\ ratios_july = <<500, 500>>
    /\ min_ratios = <<0, 0>>
    /\ max_ratios = <<1000, 1000>>
    /\ optimal_ratios = <<0, 1000>>
    /\ shown.metrics = <<600, 200, 400>>

LengthMismatch ==
    \/ Len(ratios_july) # Len(prices)
    \/ Len(prices) # Len(materials)

\* C8: when the reference blend, the optimal blend or the cost vector differ
\* in length the comparison fails with an error and produces no numeric
\* output.  (There is a comparison when the solve returned a blend, or could
\* not be called for the cost vector's length.)
C8_ComparatorError ==
    (status # "input" /\ LengthMismatch) =>
        /\ status # "ok"
        /\ (optimal_ratios # None \/ Len(prices) # Len(materials))
               => status = "ValueError"
        /\ current_cost = None
        /\ current_cost_breakdown = None
        /\ optimal_cost_breakdown = None
        /\ shown.metrics = None
        /\ shown.bar_chart = None
        /\ shown.pies = None
        /\ shown.table = None

\* C8 witness: the solve succeeded and the reference blend is shorter than
\* the optimal blend.
C8_Witness ==
    /\ status = "ValueError"
    /\ optimal_ratios # None
    /\ Len(ratios_july) < Len(optimal_ratios)

SameRequest(m) ==
    /\ m.prices = prices
    /\ m.min_ratios = min_ratios
    /\ m.max_ratios = max_ratios

\* C9: a request with the same (costs, min, max) as an earlier one has the
\* same feasible / infeasible determination and the same optimal cost,
\* whatever happened in between and whatever the quality targets are.
C9_Deterministic ==
    \A m \in memo :
        SameRequest(m) => (m.status = status /\ m.min_cost = min_cost)

\* C9 witness: the inputs were changed and then put back, so that the
\* remembered request and the current one are two requests apart.
C9_Witness ==
    \E m \in memo :
        /\ SameRequest(m)
        /\ edits = 2
        /\ m.strength = strength_target
        /\ m.fineness = fineness_target
        /\ status = "ok"

ReferenceFeasible ==
    /\ Len(ratios_july) = Len(prices)
    /\ SumOver(ratios_july, DOMAIN ratios_july) = Percent * 10
    /\ \A i \in Indices :
        /\ min_ratios[i] <= ToFraction(ratios_july[i])
        /\ ToFraction(ratios_july[i]) <= max_ratios[i]

\* C10: when the reference blend is feasible the solve succeeds and the
\* savings are >= 0; negative savings appear only when the reference blend
\* violates the bounds.
C10_SavingsNonNegative ==
    /\ ReferenceFeasible =>
        /\ optimal_ratios # None
        /\ current_cost # None
        /\ Val(current_cost) - Val(min_cost) >= 0
        /\ shown.metrics[3] >= 0
    /\ (shown.metrics # None /\ shown.metrics[3] < 0) => ~ReferenceFeasible

\* C10 witness: bounds were edited, the reference blend is still feasible and
\* the optimum is strictly cheaper.
C10_Witness ==
    /\ ReferenceFeasible
    /\ edits > 0
    /\ status = "ok"
    /\ Val(current_cost) > Val(min_cost)

====
